---- MODULE Spec2Model ----
(***************************************************************************)
(* Blue/green deployment tracker (src/src/index.js).                       *)
(*                                                                         *)
(* One DynamoDB table holds one row per deployment key; the row stores     *)
(* the active color.  Each invocation of the action (run) performs one of  *)
(* init, get-active, set-active, get-inactive, toggle.  Every await of a   *)
(* store call is one step of the model; the synchronous JavaScript between *)
(* two awaits belongs to the step of the call that precedes it.            *)
(*                                                                         *)
(* JavaScript strings are sequences of one-character strings, so that      *)
(* toLowerCase, === and Array.includes are computed, not assumed.          *)
(***************************************************************************)
EXTENDS Integers, Sequences, FiniteSets, TLC

(***************************************************************************)
(* Strings                                                                 *)
(***************************************************************************)
UpperChars == <<"A","B","C","D","E","F","G","H","I","J","K","L","M",
                "N","O","P","Q","R","S","T","U","V","W","X","Y","Z">>

LowerChars == <<"a","b","c","d","e","f","g","h","i","j","k","l","m",
                "n","o","p","q","r","s","t","u","v","w","x","y","z">>

\* The lower-case letter of each upper-case letter.
LowerOf ==
    [ch \in {UpperChars[i] : i \in DOMAIN UpperChars} |->
        LowerChars[CHOOSE i \in DOMAIN UpperChars : UpperChars[i] = ch]]

\* One character of String.prototype.toLowerCase.
LowerChar(ch) == IF ch \in DOMAIN LowerOf THEN LowerOf[ch] ELSE ch

\* String.prototype.toLowerCase.
toLowerCase(s) == [i \in DOMAIN s |-> LowerChar(s[i])]

\* The JavaScript value null (also what an absent value reads as); it is no
\* string: its one element is not a character.
Null == <<"null">>

blue == <<"b","l","u","e">>

green == <<"g","r","e","e","n">>

\* !v of JavaScript for a string-or-null value: null and '' are falsy.
Falsy(v) == v = Null \/ v = <<>>

(***************************************************************************)
(* Color domain logic                                                      *)
(***************************************************************************)
\* Error kinds; each stands for the message the code throws.
InvalidColor == "InvalidColor"

MissingInput == "MissingInput"

UnknownAction == "UnknownAction"

StateNotFound == "StateNotFound"

StoreUnavailable == "StoreUnavailable"

TableNotReady == "TableNotReady"

NoError == "none"

Returned(v) == [ok |-> TRUE, val |-> v, err |-> NoError]

Thrown(e) == [ok |-> FALSE, val |-> Null, err |-> e]

\* A slip: getOppositeColor answers 'green' in both branches.
getOppositeColorAlwaysGreen(color) == IF color = blue THEN green ELSE green

\* getOppositeColor(color): color === 'blue' ? 'green' : 'blue'.
getOppositeColor(color) == IF color = blue THEN green ELSE blue

\* A slip: validateColor returns its argument as given.
validateColorAsGiven(color) ==
    IF Falsy(color) \/ toLowerCase(color) \notin {blue, green}
    THEN Thrown(InvalidColor)
    ELSE Returned(color)

\* A slip: validateColor accepts every non-empty string.
validateColorAnyString(color) ==
    IF Falsy(color) THEN Thrown(InvalidColor) ELSE Returned(toLowerCase(color))

\* validateColor(color): throws unless the lowercased input is in the list.
validateColor(color) ==
    IF Falsy(color) \/ toLowerCase(color) \notin {blue, green}
    THEN Thrown(InvalidColor)
    ELSE Returned(toLowerCase(color))

(***************************************************************************)
(* Inputs of an invocation                                                 *)
(***************************************************************************)
initAction == <<"i","n","i","t">>

getActiveAction == <<"g","e","t","-","a","c","t","i","v","e">>

setActiveAction == <<"s","e","t","-","a","c","t","i","v","e">>

getInactiveAction == <<"g","e","t","-","i","n","a","c","t","i","v","e">>

toggleAction == <<"t","o","g","g","l","e">>

\* The five cases of the switch in run.
ValidActions ==
    {initAction, getActiveAction, setActiveAction, getInactiveAction, toggleAction}

UpperChar(ch) ==
    IF \E i \in DOMAIN LowerChars : LowerChars[i] = ch
    THEN UpperChars[CHOOSE i \in DOMAIN LowerChars : LowerChars[i] = ch]
    ELSE ch

toUpperCase(s) == [i \in DOMAIN s |-> UpperChar(s[i])]

\* s with its first character in upper case.
Capitalized(s) == [i \in DOMAIN s |-> IF i = 1 THEN UpperChar(s[i]) ELSE s[i]]

\* Values of the 'action' input: the five actions, some in other letter
\* cases, an unknown action, and '' (what core.getInput gives for an absent
\* input).
ActionInputs ==
    ValidActions
      \cup {toUpperCase(initAction), Capitalized(toggleAction),
            Capitalized(setActiveAction)}
      \cup {<<"d","e","p","l","o","y">>, <<>>}

\* Values of the 'color' and 'initial-color' inputs.
ColorInputs ==
    {blue, green, toUpperCase(blue), toUpperCase(green),
     Capitalized(blue), Capitalized(green),
     <<"r","e","d">>, <<"R","E","D">>, <<"b","l","u","e","s">>, <<>>}

\* The deployment keys rows are stored under.
DeploymentKeys == {"app"}

Procs == {"run1", "run2"}

OutputNames == {"active-color", "inactive-color", "previous-color", "table-created"}

\* const maxAttempts = 30 in waitForTableActive.
maxAttempts == 30

\* Longest run of consecutive toggles followed.
MaxToggles == 3

(***************************************************************************)
(* State                                                                   *)
(***************************************************************************)
VARIABLES
    tableStatus,     \* the table: "NONE", "CREATING" or "ACTIVE"
    items,           \* the rows of the table, at most one per deployment_key
    pc,              \* where each invocation stands: the store call it awaits
    deploymentKey,   \* this.deploymentKey of each invocation
    action,          \* the lowercased 'action' input of each invocation
    colorInput,      \* the 'color' / 'initial-color' input the invocation read
    validatedColor,  \* validatedColor of initialize and setActive
    tableCreated,    \* what ensureTableExists returned
    attempt,         \* the loop variable of waitForTableActive, 0 out of the loop
                     \* (kept when the loop is left by a throw)
    waitAnswer,      \* history: the answer to the DescribeTableCommand on which
                     \* waitForTableActive returned or threw
    currentState,    \* activeColor of the state read, Null when there is none
    error,           \* the error the invocation failed with, NoError if none
    result,          \* the result object of run
    outputs,         \* the outputs set: the value core.setOutput was called
                     \* with, by name
    setFailedCalls,  \* how many times core.setFailed was called
    calls,           \* history: store calls issued by the invocation, by kind
                     \* (describe: the existence check; the polls of
                     \* waitForTableActive are numbered by attempt)
    before,          \* history: table and rows when the invocation started
    toggleRun,       \* history: successful toggles since the last other write
    everInit,        \* history: an init invocation was started at some time
    probe            \* a direct call of validateColor and getOppositeColor:
                     \* its argument and what the calls returned

managerVars == <<tableStatus, items, pc, deploymentKey, action, colorInput,
                 validatedColor, tableCreated, attempt, waitAnswer, currentState, error,
                 result, outputs, setFailedCalls, calls, before, toggleRun,
                 everInit>>

vars == <<managerVars, probe>>

store == <<tableStatus, items>>

locals == <<validatedColor, tableCreated, attempt, waitAnswer, currentState>>

inputs == <<deploymentKey, action, colorInput, everInit>>

\* 'let result;' before any assignment.
Undefined == [undefined |-> TRUE]

\* No core.setOutput call was made.
NoOutputs == [n \in {} |-> Null]

NoCalls == [describe |-> 0, create |-> 0, get |-> 0, put |-> 0]

Running(p) == pc[p] \notin {"idle", "done"}

Succeeded(p) == pc[p] = "done" /\ error[p] = NoError

Failed(p) == pc[p] = "done" /\ error[p] # NoError

\* The row stored under key k in rows, as GetCommand returns it.
Item(rows, k) ==
    IF \E r \in rows : r.deployment_key = k
    THEN CHOOSE r \in rows : r.deployment_key = k
    ELSE Undefined

HasItem(rows, k) == \E r \in rows : r.deployment_key = k

\* No table, no rows, no invocation started.
InitManager ==
    /\ tableStatus = "NONE"
    /\ items = {}
    /\ pc = [p \in Procs |-> "idle"]
    /\ deploymentKey = [p \in Procs |-> "app"]
    /\ action = [p \in Procs |-> <<>>]
    /\ colorInput = [p \in Procs |-> Null]
    /\ validatedColor = [p \in Procs |-> Null]
    /\ tableCreated = [p \in Procs |-> FALSE]
    /\ attempt = [p \in Procs |-> 0]
    /\ waitAnswer = [p \in Procs |-> "none"]
    /\ currentState = [p \in Procs |-> Null]
    /\ error = [p \in Procs |-> NoError]
    /\ result = [p \in Procs |-> Undefined]
    /\ outputs = [p \in Procs |-> NoOutputs]
    /\ setFailedCalls = [p \in Procs |-> 0]
    /\ calls = [p \in Procs |-> NoCalls]
    /\ before = [p \in Procs |-> [tableStatus |-> "NONE", items |-> {}]]
    /\ toggleRun = [base |-> Null, n |-> 0]
    /\ everInit = FALSE

\* A call that did not happen (yet).
NotCalled == [called |-> FALSE]

NoProbe ==
    [arg |-> Null, validated |-> NotCalled, opposite |-> NotCalled,
     twice |-> NotCalled]

Init == InitManager /\ probe = NoProbe

(***************************************************************************)
(* The backing store (DynamoDB), as the calls of the code see it           *)
(***************************************************************************)
\* What a DescribeTableCommand can answer: the table's status, a
\* ResourceNotFoundException when there is no table, or any other error.
DescribeOutcomes ==
    {"Error"} \cup (IF tableStatus = "NONE" THEN {"ResourceNotFound"} ELSE {tableStatus})

\* A CreateTableCommand succeeds only when there is no table yet.
CreateOutcomes == {"Error"} \cup (IF tableStatus = "NONE" THEN {"Ok"} ELSE {})

\* A GetCommand or PutCommand is served only by a table that is ACTIVE.
ItemOutcomes == {"Error"} \cup (IF tableStatus = "ACTIVE" THEN {"Ok"} ELSE {})

\* The store finishes creating the table.
TableBecomesActive ==
    /\ tableStatus = "CREATING"
    /\ tableStatus' = "ACTIVE"
    /\ UNCHANGED <<items, pc, inputs, locals, error, result, outputs,
                   setFailedCalls, calls, before, toggleRun, probe>>

(***************************************************************************)
(* BlueGreenManager: the synchronous parts of the methods                  *)
(***************************************************************************)
\* A slip: initialize takes the configured initial color without validating.
initializeColorUnvalidated(c) == Returned(IF Falsy(c) THEN blue ELSE c)

\* A slip: the default of the initial color is the other color.
initializeColorDefaultGreen(c) == validateColor(IF Falsy(c) THEN green ELSE c)

\* initialize: core.getInput('initial-color') || 'blue', then validateColor.
initializeColor(c) == validateColor(IF Falsy(c) THEN blue ELSE c)

\* A slip: setActive lowercases the color without validating it.
setActiveColorUnvalidated(c) ==
    IF Falsy(c) THEN Thrown(MissingInput) ELSE Returned(toLowerCase(c))

\* setActive: the color input is required, then validateColor.
setActiveColor(c) == IF Falsy(c) THEN Thrown(MissingInput) ELSE validateColor(c)

\* A slip: initialize defers the validation of its color to the path that
\* writes it, and that path does not validate either.
BeforeFirstAwaitInitDefers(act, c) ==
    CASE act = initAction -> Returned(toLowerCase(IF Falsy(c) THEN blue ELSE c))
      [] act = setActiveAction -> setActiveColor(c)
      [] act \in {getActiveAction, getInactiveAction, toggleAction} -> Returned(Null)
      [] OTHER -> Thrown(UnknownAction)

\* A slip: the switch has no default case, the get-active path is taken.
BeforeFirstAwaitNoDefault(act, c) ==
    CASE act = initAction -> initializeColor(c)
      [] act = setActiveAction -> setActiveColor(c)
      [] OTHER -> Returned(Null)

\* run and the method it dispatches to, up to the first await: the validated
\* color (Null for the actions that read none), or the error thrown.
BeforeFirstAwait(act, c) ==
    CASE act = initAction -> initializeColor(c)
      [] act = setActiveAction -> setActiveColor(c)
      [] act \in {getActiveAction, getInactiveAction, toggleAction} -> Returned(Null)
      [] OTHER -> Thrown(UnknownAction)

\* The values core.getInput can give for the color input the action reads
\* ('initial-color' of init, 'color' of set-active); Null when it reads none.
InputsRead(act) ==
    IF act \in {initAction, setActiveAction} THEN ColorInputs ELSE {Null}

\* initialize, existing state found.
initializeExisting(existing, created) ==
    [activeColor |-> existing, inactiveColor |-> getOppositeColor(existing),
     tableCreated |-> created, wasExisting |-> TRUE]

\* A slip: initialize reports the row it wrote as one that existed.
initializeNewAsExisting(validated, created) ==
    [activeColor |-> validated, inactiveColor |-> getOppositeColor(validated),
     tableCreated |-> created, wasExisting |-> TRUE]

\* initialize, after the row was written.
initializeNew(validated, created) ==
    [activeColor |-> validated, inactiveColor |-> getOppositeColor(validated),
     tableCreated |-> created, wasExisting |-> FALSE]

\* A slip: getActive returns the two colors the wrong way round.
getActiveResultSwapped(active) ==
    [activeColor |-> getOppositeColor(active), inactiveColor |-> active]

\* getActive; run builds the same pair for get-inactive.
getActiveResult(active) ==
    [activeColor |-> active, inactiveColor |-> getOppositeColor(active)]

\* A slip: setActive reports the new color as the previous one.
setActiveResultNoPrevious(validated, previous) ==
    [activeColor |-> validated, inactiveColor |-> getOppositeColor(validated),
     previousColor |-> validated]

\* setActive, after the row was written.
setActiveResult(validated, previous) ==
    [activeColor |-> validated, inactiveColor |-> getOppositeColor(validated),
     previousColor |-> previous]

\* A slip: toggle writes back the color it read.
newActiveColorSame(current) == current

\* toggle: newActiveColor.
newActiveColor(current) == getOppositeColor(current)

\* A slip: toggle reports the color it read as the active one.
toggleResultSwapped(current) ==
    [activeColor |-> current, inactiveColor |-> newActiveColor(current),
     previousColor |-> current]

\* toggle, after the row was written.
toggleResult(current) ==
    [activeColor |-> newActiveColor(current), inactiveColor |-> current,
     previousColor |-> current]

\* The metadata each writing method hands to setDeploymentState (timestamps
\* are left out: the model has no clock).
initializeMetadata(validated) == [initial_color |-> validated]

\* A slip: setActive records no previous color.
setActiveMetadataNoPrevious(previous) == [previous_color |-> Null, action |-> setActiveAction]

setActiveMetadata(previous) == [previous_color |-> previous, action |-> setActiveAction]

toggleMetadata(previous) == [previous_color |-> previous, action |-> toggleAction]

\* setDeploymentState: the item put (last_updated, run_id and workflow, which
\* no logic reads, are left out).
NewItem(key, activeColor, metadata) ==
    [deployment_key |-> key, active_color |-> activeColor,
     metadata |-> [updated_by |-> "github-actions"] @@ metadata]

\* PutCommand: the unconditional overwrite of the row of the item's key.
PutItemInto(rows, item) ==
    {r \in rows : r.deployment_key # item.deployment_key} \cup {item}

\* The color and the metadata the invocation writes.
PutColor(p) ==
    IF action[p] = toggleAction THEN newActiveColor(currentState[p])
    ELSE validatedColor[p]

PutMetadata(p) ==
    CASE action[p] = initAction -> initializeMetadata(validatedColor[p])
      [] action[p] = setActiveAction -> setActiveMetadata(currentState[p])
      [] OTHER -> toggleMetadata(currentState[p])

\* The result the method returns after its put.
ResultAfterPut(p) ==
    CASE action[p] = initAction -> initializeNew(validatedColor[p], tableCreated[p])
      [] action[p] = setActiveAction -> setActiveResult(validatedColor[p], currentState[p])
      [] OTHER -> toggleResult(currentState[p])

\* A slip: run does not set previous-color after a toggle.
OutputsOfNoPreviousForToggle(act) ==
    {"active-color", "inactive-color"}
      \cup (IF act = initAction THEN {"table-created"} ELSE {})
      \cup (IF act = setActiveAction THEN {"previous-color"} ELSE {})

\* run: the core.setOutput calls of a successful invocation.
OutputsOf(act) ==
    {"active-color", "inactive-color"}
      \cup (IF act = initAction THEN {"table-created"} ELSE {})
      \cup (IF act \in {setActiveAction, toggleAction} THEN {"previous-color"} ELSE {})

\* run: the value each of these calls passes, res being the result.
SetOutputs(act, res) ==
    [n \in OutputsOf(act) |->
        CASE n = "table-created" -> res.tableCreated
          [] n = "previous-color" -> res.previousColor
          [] n = "active-color" -> res.activeColor
          [] OTHER -> res.inactiveColor]

\* History: the run of consecutive toggles after a put by action act of color c.
ToggleRunAfter(act, c) ==
    IF act = toggleAction THEN [toggleRun EXCEPT !.n = @ + 1]
    ELSE [base |-> c, n |-> 0]

\* Toggles under way.
TogglesInFlight == Cardinality({q \in Procs : Running(q) /\ action[q] = toggleAction})

(***************************************************************************)
(* What the code does with the answer to a store call                      *)
(***************************************************************************)
\* The method goes on to await store call l, returns res, or throws e.
Await(l) == [to |-> l, res |-> Undefined, err |-> NoError]

Return(res) == [to |-> "return", res |-> res, err |-> NoError]

Throw(e) == [to |-> "throw", res |-> Undefined, err |-> e]

\* A slip: ensureTableExists takes every error for "no such table".
ensureTableExistsAnyErrorCreates(outcome) ==
    CASE outcome \in {"ResourceNotFound", "Error"} -> Await("create")
      [] OTHER -> Await("get")

\* ensureTableExists on the answer to its DescribeTableCommand: return false
\* ("get": the caller reads the state next), createTable on a
\* ResourceNotFoundException, rethrow any other error.
ensureTableExists(outcome) ==
    CASE outcome = "ResourceNotFound" -> Await("create")
      [] outcome = "Error" -> Throw(StoreUnavailable)
      [] OTHER -> Await("get")

\* A slip: createTable swallows the error of its CreateTableCommand and
\* returns at once.
createTableSwallowsError(outcome) ==
    IF outcome = "Ok" THEN Await("wait") ELSE Await("get")

\* createTable on the answer to its CreateTableCommand.
createTable(outcome) ==
    IF outcome = "Ok" THEN Await("wait") ELSE Throw(StoreUnavailable)

\* A slip: waitForTableActive rethrows the error of any attempt.
waitForTableActiveNoRetry(outcome, n) ==
    CASE outcome = "ACTIVE" -> Await("get")
      [] outcome \in {"Error", "ResourceNotFound"} -> Throw(StoreUnavailable)
      [] OTHER ->
           IF n + 1 <= maxAttempts THEN Await("wait") ELSE Throw(TableNotReady)

\* A slip: the catch of the last attempt falls through to the throw after
\* the loop.
waitForTableActiveSwallowsLast(outcome, n) ==
    CASE outcome = "ACTIVE" -> Await("get")
      [] OTHER ->
           IF n + 1 <= maxAttempts THEN Await("wait") ELSE Throw(TableNotReady)

\* A slip: waitForTableActive returns on any status the table reports.
waitForTableActiveAnyStatus(outcome, n) ==
    CASE outcome \in {"Error", "ResourceNotFound"} ->
           IF n = maxAttempts THEN Throw(StoreUnavailable) ELSE Await("wait")
      [] OTHER -> Await("get")

\* waitForTableActive on the answer to the DescribeTableCommand of attempt n:
\* return on ACTIVE; on another status wait and go round the loop, which ends
\* in the throw after it; on an error rethrow at the last attempt, else wait
\* and go round.
waitForTableActive(outcome, n) ==
    CASE outcome = "ACTIVE" -> Await("get")
      [] outcome \in {"Error", "ResourceNotFound"} ->
           IF n = maxAttempts THEN Throw(StoreUnavailable) ELSE Await("wait")
      [] OTHER ->
           IF n + 1 <= maxAttempts THEN Await("wait") ELSE Throw(TableNotReady)

\* A slip: initialize writes its color over an existing state.
AfterGetInitOverwrites(act, found, active, created) ==
    CASE act = initAction -> Await("put")
      [] act \in {getActiveAction, getInactiveAction} ->
           IF found THEN Return(getActiveResult(active)) ELSE Throw(StateNotFound)
      [] act = setActiveAction -> Await("put")
      [] OTHER ->
           IF found THEN Await("put") ELSE Throw(StateNotFound)

\* A slip: toggle does not check that there is a state.
AfterGetToggleUnchecked(act, found, active, created) ==
    CASE act = initAction ->
           IF found THEN Return(initializeExisting(active, created)) ELSE Await("put")
      [] act \in {getActiveAction, getInactiveAction} ->
           IF found THEN Return(getActiveResult(active)) ELSE Throw(StateNotFound)
      [] OTHER -> Await("put")

\* A slip: setActive requires an existing state, as toggle does.
AfterGetSetActiveChecked(act, found, active, created) ==
    CASE act = initAction ->
           IF found THEN Return(initializeExisting(active, created)) ELSE Await("put")
      [] act \in {getActiveAction, getInactiveAction} ->
           IF found THEN Return(getActiveResult(active)) ELSE Throw(StateNotFound)
      [] OTHER ->
           IF found THEN Await("put") ELSE Throw(StateNotFound)

\* The calling method on the state getDeploymentState returned (found, and
\* then its activeColor), created being what ensureTableExists returned.
AfterGet(act, found, active, created) ==
    CASE act = initAction ->
           IF found THEN Return(initializeExisting(active, created)) ELSE Await("put")
      [] act \in {getActiveAction, getInactiveAction} ->
           IF found THEN Return(getActiveResult(active)) ELSE Throw(StateNotFound)
      [] act = setActiveAction -> Await("put")
      [] OTHER ->
           IF found THEN Await("put") ELSE Throw(StateNotFound)

(***************************************************************************)
(* How a step ends                                                         *)
(***************************************************************************)
\* The method returned res: run sets the outputs.
Complete(p, res) ==
    /\ pc' = [pc EXCEPT ![p] = "done"]
    /\ result' = [result EXCEPT ![p] = res]
    /\ outputs' = [outputs EXCEPT ![p] = SetOutputs(action[p], res)]
    /\ UNCHANGED <<error, setFailedCalls>>

\* A slip: the catch of run logs the error and does not call core.setFailed.
FailUnreported(p, e) ==
    /\ pc' = [pc EXCEPT ![p] = "done"]
    /\ error' = [error EXCEPT ![p] = e]
    /\ UNCHANGED <<result, outputs, setFailedCalls>>

\* An error e was thrown: the catch of run calls core.setFailed.
Fail(p, e) ==
    /\ pc' = [pc EXCEPT ![p] = "done"]
    /\ error' = [error EXCEPT ![p] = e]
    /\ setFailedCalls' = [setFailedCalls EXCEPT ![p] = @ + 1]
    /\ UNCHANGED <<result, outputs>>

\* The invocation goes on as step says.
Continue(p, step) ==
    CASE step.to = "return" -> Complete(p, step.res)
      [] step.to = "throw" -> Fail(p, step.err)
      [] OTHER -> /\ pc' = [pc EXCEPT ![p] = step.to]
                  /\ UNCHANGED <<error, result, outputs, setFailedCalls>>

Called(p, kind) == calls' = [calls EXCEPT ![p][kind] = @ + 1]

(***************************************************************************)
(* The steps of an invocation                                              *)
(***************************************************************************)
\* run starts: it reads the action, dispatches, and the method runs up to its
\* first await (the DescribeTableCommand of ensureTableExists) or throws.
Run(p) ==
    /\ ~Running(p)
    /\ \E a \in ActionInputs, k \in DeploymentKeys :
       \E c \in InputsRead(toLowerCase(a)) :
         LET act == toLowerCase(a)
             first == BeforeFirstAwait(act, c)
         IN  /\ act = toggleAction => toggleRun.n + TogglesInFlight < MaxToggles
             /\ deploymentKey' = [deploymentKey EXCEPT ![p] = k]
             /\ action' = [action EXCEPT ![p] = act]
             /\ colorInput' = [colorInput EXCEPT ![p] = c]
             /\ everInit' = (everInit \/ act = initAction)
             /\ validatedColor' = [validatedColor EXCEPT ![p] = first.val]
             /\ pc' = [pc EXCEPT ![p] = IF first.ok THEN "describe" ELSE "done"]
             /\ error' = [error EXCEPT ![p] = first.err]
             /\ setFailedCalls' = [setFailedCalls EXCEPT ![p] = IF first.ok THEN 0 ELSE 1]
    /\ tableCreated' = [tableCreated EXCEPT ![p] = FALSE]
    /\ attempt' = [attempt EXCEPT ![p] = 0]
    /\ waitAnswer' = [waitAnswer EXCEPT ![p] = "none"]
    /\ currentState' = [currentState EXCEPT ![p] = Null]
    /\ result' = [result EXCEPT ![p] = Undefined]
    /\ outputs' = [outputs EXCEPT ![p] = NoOutputs]
    /\ calls' = [calls EXCEPT ![p] = NoCalls]
    /\ before' = [before EXCEPT ![p] = [tableStatus |-> tableStatus, items |-> items]]
    /\ UNCHANGED <<store, toggleRun, probe>>

\* ensureTableExists: the answer to its DescribeTableCommand.
DescribeTable(p) ==
    /\ pc[p] = "describe"
    /\ Called(p, "describe")
    /\ \E outcome \in DescribeOutcomes : Continue(p, ensureTableExists(outcome))
    /\ UNCHANGED <<store, inputs, locals, before, toggleRun, probe>>

\* createTable: the answer to its CreateTableCommand; on success the method
\* enters the loop of waitForTableActive with attempt = 1.
CreateTable(p) ==
    /\ pc[p] = "create"
    /\ Called(p, "create")
    /\ \E outcome \in CreateOutcomes :
         /\ tableStatus' = IF outcome = "Ok" THEN "CREATING" ELSE tableStatus
         /\ attempt' = [attempt EXCEPT ![p] = IF createTable(outcome).to = "wait" THEN 1 ELSE 0]
         /\ Continue(p, createTable(outcome))
    /\ UNCHANGED <<items, inputs, validatedColor, tableCreated, waitAnswer, currentState,
                   before, toggleRun, probe>>

\* waitForTableActive: the answer to the DescribeTableCommand of one attempt.
\* When it returns, createTable returns and ensureTableExists returns true.
WaitForTableActive(p) ==
    /\ pc[p] = "wait"
    /\ \E outcome \in DescribeOutcomes :
         LET step == waitForTableActive(outcome, attempt[p])
         IN  /\ attempt' = [attempt EXCEPT ![p] =
                              CASE step.to = "wait" -> @ + 1
                                [] step.to = "get" -> 0
                                [] OTHER -> @]
             /\ waitAnswer' = [waitAnswer EXCEPT ![p] =
                                 IF step.to = "wait" THEN @ ELSE outcome]
             /\ tableCreated' = [tableCreated EXCEPT ![p] = (step.to = "get")]
             /\ Continue(p, step)
    /\ UNCHANGED <<store, inputs, validatedColor, currentState, calls, before,
                   toggleRun, probe>>

\* getDeploymentState: the answer to the GetCommand, and what the calling
\* method does with the state up to its next await, return or throw.
GetItem(p) ==
    /\ pc[p] = "get"
    /\ Called(p, "get")
    /\ \E outcome \in ItemOutcomes :
         IF outcome = "Error"
         THEN /\ Fail(p, StoreUnavailable)
              /\ UNCHANGED currentState
         ELSE LET found == HasItem(items, deploymentKey[p])
                  active == IF found THEN Item(items, deploymentKey[p]).active_color
                            ELSE Null
              IN  /\ currentState' = [currentState EXCEPT ![p] = active]
                  /\ Continue(p, AfterGet(action[p], found, active, tableCreated[p]))
    /\ UNCHANGED <<store, inputs, validatedColor, tableCreated, attempt, waitAnswer, before,
                   toggleRun, probe>>

\* A slip: the row is written although the PutCommand was rejected.
PutItemOnError(p) ==
    /\ pc[p] = "put"
    /\ Called(p, "put")
    /\ \E outcome \in ItemOutcomes :
         /\ items' = PutItemInto(items, NewItem(deploymentKey[p], PutColor(p), PutMetadata(p)))
         /\ IF outcome = "Error"
            THEN /\ Fail(p, StoreUnavailable)
                 /\ UNCHANGED toggleRun
            ELSE /\ toggleRun' = ToggleRunAfter(action[p], PutColor(p))
                 /\ Complete(p, ResultAfterPut(p))
    /\ UNCHANGED <<tableStatus, inputs, locals, before, probe>>

\* setDeploymentState: the answer to the PutCommand, and the return of the
\* calling method.
PutItem(p) ==
    /\ pc[p] = "put"
    /\ Called(p, "put")
    /\ \E outcome \in ItemOutcomes :
         IF outcome = "Error"
         THEN /\ Fail(p, StoreUnavailable)
              /\ UNCHANGED <<items, toggleRun>>
         ELSE /\ items' = PutItemInto(items,
                              NewItem(deploymentKey[p], PutColor(p), PutMetadata(p)))
              /\ toggleRun' = ToggleRunAfter(action[p], PutColor(p))
              /\ Complete(p, ResultAfterPut(p))
    /\ UNCHANGED <<tableStatus, inputs, locals, before, probe>>

Next ==
    \/ TableBecomesActive
    \/ \E p \in Procs : Run(p)
    \/ \E p \in Procs : DescribeTable(p)
    \/ \E p \in Procs : CreateTable(p)
    \/ \E p \in Procs : WaitForTableActive(p)
    \/ \E p \in Procs : GetItem(p)
    \/ \E p \in Procs : PutItem(p)

\* Invocations in any interleaving.
Spec == Init /\ [][Next]_vars

\* Sequential execution needs one invocation slot: the next invocation
\* starts where the last one finished.
SeqProcs == {"run1"}

SeqNext ==
    \/ TableBecomesActive
    \/ \E p \in SeqProcs : Run(p)
    \/ \E p \in SeqProcs : DescribeTable(p)
    \/ \E p \in SeqProcs : CreateTable(p)
    \/ \E p \in SeqProcs : WaitForTableActive(p)
    \/ \E p \in SeqProcs : GetItem(p)
    \/ \E p \in SeqProcs : PutItem(p)

\* Sequential execution: each invocation finishes before the next starts.
SeqSpec == Init /\ [][SeqNext]_vars

(***************************************************************************)
(* validateColor and getOppositeColor called directly                      *)
(***************************************************************************)
\* The set of strings s is written as, letter case apart.
CaseVariants(s) ==
    {[i \in DOMAIN s |-> IF i \in U THEN UpperChar(s[i]) ELSE s[i]] : U \in SUBSET DOMAIN s}

\* Arguments of validateColor: the two colors in every letter case, strings
\* that are neither, the empty string and null.
ValidateInputs ==
    CaseVariants(blue) \cup CaseVariants(green)
      \cup {Null, <<>>, <<"r","e","d">>, <<"R","E","D">>, <<"b","l","u","e","s">>,
            <<"b","l","u">>, <<" ","b","l","u","e">>, <<"b","l","e","u">>,
            <<"g","r","e","n">>, <<"G","R","E","E","N","S">>, <<"b","l","u","e","g","r","e","e","n">>,
            <<"n","u","l","l">>}

ProbeInit ==
    /\ InitManager
    /\ \E x \in ValidateInputs : probe = [NoProbe EXCEPT !.arg = x]

\* validateColor(arg) is called.
Validate ==
    /\ ~probe.validated.called
    /\ probe' = [probe EXCEPT !.validated = [called |-> TRUE] @@ validateColor(probe.arg)]
    /\ UNCHANGED managerVars

\* getOppositeColor is called with the color validateColor returned.
Opposite ==
    /\ probe.validated.called
    /\ probe.validated.ok
    /\ ~probe.opposite.called
    /\ probe' = [probe EXCEPT !.opposite =
                    [called |-> TRUE, val |-> getOppositeColor(probe.validated.val)]]
    /\ UNCHANGED managerVars

\* getOppositeColor is called with the color getOppositeColor returned.
OppositeAgain ==
    /\ probe.opposite.called
    /\ ~probe.twice.called
    /\ probe' = [probe EXCEPT !.twice =
                    [called |-> TRUE, val |-> getOppositeColor(probe.opposite.val)]]
    /\ UNCHANGED managerVars

ProbeNext == Validate \/ Opposite \/ OppositeAgain

\* The color logic alone, on every argument of ValidateInputs.
ColorSpec == ProbeInit /\ [][ProbeNext]_vars

TypeOK ==
    /\ tableStatus \in {"NONE", "CREATING", "ACTIVE"}
    /\ \A r \in items : r.active_color \in {blue, green}
    /\ \A p \in Procs : attempt[p] \in 0..maxAttempts

(***************************************************************************)
(* Vocabulary of the properties                                            *)
(***************************************************************************)
\* The color that is not c.
OtherColor(c) == CHOOSE d \in {blue, green} : d # c

\* c is "blue" or "green" in some letter case, and then which one.
IsColorName(c) == c \in CaseVariants(blue) \cup CaseVariants(green)

ColorNamed(c) == IF c \in CaseVariants(blue) THEN blue ELSE green

\* The color stored for the key of invocation p: now, and when p started.
StoredColor(p) ==
    IF HasItem(items, deploymentKey[p])
    THEN Item(items, deploymentKey[p]).active_color ELSE Null

ColorBefore(p) ==
    IF HasItem(before[p].items, deploymentKey[p])
    THEN Item(before[p].items, deploymentKey[p]).active_color ELSE Null

HadRow(p) == HasItem(before[p].items, deploymentKey[p])

\* The configured initial color of an init: "blue" when the input is unset.
ConfiguredInitial(p) == IF colorInput[p] = <<>> THEN blue ELSE colorInput[p]

\* The errors of a store call that failed or a table that did not get ready.
StoreErrors == {StoreUnavailable, TableNotReady}

Started(p) == pc[p] # "idle"

\* The table is as it was when p started, but for the store having finished
\* a creation that was under way then.
TableUntouched(p) ==
    \/ tableStatus = before[p].tableStatus
    \/ before[p].tableStatus = "CREATING" /\ tableStatus = "ACTIVE"

Done(p) == pc[p] = "done"

\* C1: in a sequential execution an init on a key that already has a row
\* issues no put and leaves the rows as they were, and when it returns it
\* returns the stored color as activeColor, the other color as inactiveColor
\* and wasExisting = true, whatever valid initial color is configured; it
\* fails only when a store call fails.
C1_InitKeepsExistingRow ==
    \A p \in Procs :
      (Started(p) /\ action[p] = initAction /\ HadRow(p)
         /\ IsColorName(ConfiguredInitial(p)))
      => /\ calls[p].put = 0
         /\ pc[p] # "put"
         /\ items = before[p].items
         /\ Done(p) => error[p] \in {NoError, StoreUnavailable}
         /\ Succeeded(p) =>
              /\ result[p].activeColor = ColorBefore(p)
              /\ result[p].inactiveColor = OtherColor(ColorBefore(p))
              /\ result[p].wasExisting = TRUE

\* An init configured with the color that is not the stored one has returned.
C1_Witness ==
    \E p \in Procs :
      /\ Succeeded(p) /\ action[p] = initAction /\ HadRow(p)
      /\ IsColorName(ConfiguredInitial(p))
      /\ ColorNamed(ConfiguredInitial(p)) # ColorBefore(p)
      /\ result[p].wasExisting

\* C2: an init on a key without a row, configured with a valid initial color
\* c ("blue" when unset), fails only when a store call fails, and when it
\* returns it has written a row whose color is lowercase(c) and returns that
\* color as activeColor, the other color as inactiveColor, wasExisting =
\* false, and tableCreated = true with the table created by it when there
\* was no table, tableCreated = false and no create call when there was one.
C2_InitCreatesRow ==
    \A p \in Procs :
      (Done(p) /\ action[p] = initAction /\ ~HadRow(p)
         /\ IsColorName(ConfiguredInitial(p)))
      => /\ error[p] \in {NoError} \cup StoreErrors
         /\ Succeeded(p) =>
              LET c == ColorNamed(ConfiguredInitial(p))
                  noTable == before[p].tableStatus = "NONE"
              IN  /\ result[p] = [activeColor |-> c, inactiveColor |-> OtherColor(c),
                                  tableCreated |-> noTable, wasExisting |-> FALSE]
                  /\ StoredColor(p) = c
                  /\ calls[p].put = 1
                  /\ calls[p].create = IF noTable THEN 1 ELSE 0
                  /\ tableStatus = "ACTIVE"

\* The first init, input unset, has created the table and the row.
C2_Witness ==
    \E p \in Procs :
      /\ Succeeded(p) /\ action[p] = initAction /\ ~HadRow(p)
      /\ before[p].tableStatus = "NONE"
      /\ colorInput[p] = <<>>
      /\ result[p].tableCreated /\ StoredColor(p) = blue

\* C3: in a sequential execution a toggle that returns has stored the color
\* that is not the one stored before it, and returns the new color as
\* activeColor and the color stored before as inactiveColor and
\* previousColor; so after n toggles in a row the stored color is the one
\* the run started from when n is even, the other one when n is odd.
C3_ToggleFlips ==
    /\ \A p \in Procs :
         (Succeeded(p) /\ action[p] = toggleAction)
         => /\ HadRow(p)
            /\ StoredColor(p) = OtherColor(ColorBefore(p))
            /\ result[p] = [activeColor |-> StoredColor(p),
                            inactiveColor |-> ColorBefore(p),
                            previousColor |-> ColorBefore(p)]
    /\ \A r \in items :
         r.active_color = IF toggleRun.n % 2 = 0 THEN toggleRun.base
                          ELSE OtherColor(toggleRun.base)

\* Two toggles in a row have returned, from blue back to blue.
C3_Witness ==
    \E p \in Procs :
      /\ Succeeded(p) /\ action[p] = toggleAction
      /\ toggleRun = [base |-> blue, n |-> 2]
      /\ StoredColor(p) = blue /\ result[p].previousColor = green

\* C4: get-active, get-inactive and toggle on a key without a row never
\* return a result and issue no put; they fail with StateNotFound unless a
\* store call failed before, and leave the key without a row.
C4_NoRowStateNotFound ==
    \A p \in Procs :
      (Started(p) /\ ~HadRow(p)
         /\ action[p] \in {getActiveAction, getInactiveAction, toggleAction})
      => /\ calls[p].put = 0
         /\ pc[p] # "put"
         /\ ~HasItem(items, deploymentKey[p])
         /\ Done(p) => error[p] \in {StateNotFound} \cup StoreErrors

\* A toggle on a key without a row has failed with StateNotFound.
C4_Witness ==
    \E p \in Procs :
      /\ Done(p) /\ action[p] = toggleAction /\ ~HadRow(p)
      /\ error[p] = StateNotFound /\ calls[p].get = 1 /\ setFailedCalls[p] = 1

\* C5: in a sequential execution a set-active with a valid color c on a key
\* whose stored color is p fails only when a store call fails, and when it
\* returns it has issued one put, the stored color is lowercase(c), also
\* when that is p, and it returns activeColor = lowercase(c), inactiveColor
\* = the other color and previousColor = p.
C5_SetActiveWrites ==
    \A p \in Procs :
      (Done(p) /\ action[p] = setActiveAction /\ HadRow(p)
         /\ IsColorName(colorInput[p]))
      => /\ error[p] \in {NoError, StoreUnavailable}
         /\ Succeeded(p) =>
              LET c == ColorNamed(colorInput[p])
              IN  /\ result[p] = [activeColor |-> c, inactiveColor |-> OtherColor(c),
                                  previousColor |-> ColorBefore(p)]
                  /\ StoredColor(p) = c
                  /\ calls[p].put = 1

\* color=GREEN over a stored blue has returned {green, blue, blue}.
C5_Witness ==
    \E p \in Procs :
      /\ Succeeded(p) /\ action[p] = setActiveAction
      /\ colorInput[p] = toUpperCase(green) /\ ColorBefore(p) = blue
      /\ result[p] = [activeColor |-> green, inactiveColor |-> blue,
                      previousColor |-> blue]

\* C6: a set-active whose color input is not empty and is neither "blue" nor
\* "green" after lowercasing fails with InvalidColor at once: it issues no
\* store call, and table and rows are as before the invocation.
C6_InvalidColorNoStoreCall ==
    \A p \in Procs :
      (Started(p) /\ action[p] = setActiveAction
         /\ colorInput[p] # <<>> /\ ~IsColorName(colorInput[p]))
      => /\ Done(p)
         /\ error[p] = InvalidColor
         /\ calls[p] = NoCalls
         /\ TableUntouched(p)
         /\ items = before[p].items

\* A set-active with color=red on a key with a row has failed.
C6_Witness ==
    \E p \in Procs :
      /\ Done(p) /\ action[p] = setActiveAction /\ HadRow(p)
      /\ colorInput[p] = <<"r","e","d">>
      /\ error[p] = InvalidColor /\ setFailedCalls[p] = 1

\* C7: a set-active without a color, and an invocation whose action is absent
\* or is none of the five actions after lowercasing, fail at once (with
\* MissingInput, with UnknownAction): no store call is issued, and table and
\* rows are as before the invocation.
C7_InputFailuresNoStoreCall ==
    \A p \in Procs :
      Started(p) =>
        /\ (action[p] = setActiveAction /\ colorInput[p] = <<>>)
             => Done(p) /\ error[p] = MissingInput
        /\ action[p] \notin ValidActions
             => Done(p) /\ error[p] = UnknownAction
        /\ error[p] \in {MissingInput, UnknownAction}
             => /\ calls[p] = NoCalls
                /\ TableUntouched(p)
                /\ items = before[p].items

\* With a table and a row in place, an invocation without an action has
\* failed.
C7_Witness ==
    \E p \in Procs :
      /\ Done(p) /\ action[p] = <<>> /\ error[p] = UnknownAction
      /\ HadRow(p) /\ calls[p] = NoCalls

\* ensureTableExists has returned in invocation p.
EnsureReturned(p) == pc[p] \in {"get", "put"} \/ (Done(p) /\ calls[p].get > 0)

\* C8: in a sequential execution, when ensureTableExists returns after an
\* existence check that reported not-found, it has issued exactly one
\* create-table call, the table has been seen ACTIVE, and it returns true;
\* when the existence check succeeded it has issued no create-table call and
\* returns false.  It never issues a second create-table call, and it waits
\* only after its create-table call.
C8_EnsureTable ==
    \A p \in Procs :
      /\ calls[p].create <= 1
      /\ pc[p] = "wait" => calls[p].create = 1 /\ before[p].tableStatus = "NONE"
      /\ EnsureReturned(p) =>
           /\ calls[p].describe = 1
           /\ tableCreated[p] = (before[p].tableStatus = "NONE")
           /\ calls[p].create = IF tableCreated[p] THEN 1 ELSE 0
           /\ tableCreated[p] => tableStatus = "ACTIVE"

\* ensureTableExists has created the table and returned true after waiting.
C8_Witness ==
    \E p \in Procs :
      /\ pc[p] = "get" /\ tableCreated[p] /\ calls[p].create = 1
      /\ tableStatus = "ACTIVE"

\* ensureTableExists has found the table and returned false.
C8_WitnessExisting ==
    \E p \in Procs :
      /\ pc[p] = "get" /\ ~tableCreated[p] /\ calls[p].create = 0

\* C9: for every string that is "blue" or "green" in some letter case,
\* validateColor returns the lowercase form, and getOppositeColor of what it
\* returned is the other of the two colors.
C9_ValidateNormalizes ==
    (IsColorName(probe.arg) /\ probe.validated.called)
    => /\ probe.validated.ok
       /\ probe.validated.val = ColorNamed(probe.arg)
       /\ probe.opposite.called =>
            probe.opposite.val = OtherColor(ColorNamed(probe.arg))

\* validateColor("GrEEn") returned "green", whose opposite is "blue".
C9_Witness ==
    /\ probe.arg = <<"G","r","E","E","n">>
    /\ probe.validated.called /\ probe.validated.val = green
    /\ probe.opposite.called /\ probe.opposite.val = blue

\* C10: for every argument that is not "blue" or "green" after lowercasing,
\* null and the empty string among them, validateColor throws InvalidColor
\* and returns no value.
C10_ValidateRejects ==
    (~IsColorName(probe.arg) /\ probe.validated.called)
    => /\ ~probe.validated.ok
       /\ probe.validated.err = InvalidColor
       /\ probe.validated.val = Null
       /\ ~probe.opposite.called

\* validateColor("red") has thrown.
C10_Witness ==
    /\ probe.arg = <<"r","e","d">>
    /\ probe.validated.called /\ probe.validated.err = InvalidColor

\* validateColor(null) has thrown.
C10_WitnessNull ==
    /\ probe.arg = Null
    /\ probe.validated.called /\ probe.validated.err = InvalidColor

\* validateColor('') has thrown.
C10_WitnessEmpty ==
    /\ probe.arg = <<>>
    /\ probe.validated.called /\ probe.validated.err = InvalidColor

\* C11: getOppositeColor is defined on both colors, maps "blue" to "green"
\* and "green" to "blue" (so it is a bijection of the two colors), and
\* applied twice gives back the color it started from.
C11_OppositeInvolutive ==
    probe.opposite.called
    => /\ probe.validated.val \in {blue, green}
       /\ probe.opposite.val \in {blue, green}
       /\ probe.validated.val = blue => probe.opposite.val = green
       /\ probe.validated.val = green => probe.opposite.val = blue
       /\ probe.twice.called => probe.twice.val = probe.validated.val

\* getOppositeColor(getOppositeColor("green")) has returned "green".
C11_Witness ==
    /\ probe.validated.called /\ probe.validated.val = green
    /\ probe.opposite.called /\ probe.opposite.val = blue
    /\ probe.twice.called /\ probe.twice.val = green

\* C12: every invocation that succeeds has set active-color and
\* inactive-color, to a color and to the other color; previous-color is set
\* exactly when the action is set-active or toggle, table-created exactly
\* when it is init; no other output is set.
C12_OutputsByAction ==
    \A p \in Procs :
      Succeeded(p) =>
        LET set == DOMAIN outputs[p]
        IN  /\ set \subseteq OutputNames
            /\ {"active-color", "inactive-color"} \subseteq set
            /\ outputs[p]["active-color"] \in {blue, green}
            /\ outputs[p]["inactive-color"] = OtherColor(outputs[p]["active-color"])
            /\ "previous-color" \in set <=> action[p] \in {setActiveAction, toggleAction}
            /\ "table-created" \in set <=> action[p] = initAction

\* A toggle has set active-color, inactive-color and previous-color.
C12_Witness ==
    \E p \in Procs :
      /\ Succeeded(p) /\ action[p] = toggleAction
      /\ DOMAIN outputs[p] = {"active-color", "inactive-color", "previous-color"}
      /\ outputs[p]["previous-color"] = outputs[p]["inactive-color"]

\* An init has set table-created, and not previous-color.
C12_WitnessInit ==
    \E p \in Procs :
      /\ Succeeded(p) /\ action[p] = initAction
      /\ DOMAIN outputs[p] = {"active-color", "inactive-color", "table-created"}
      /\ outputs[p]["table-created"] = TRUE

\* C13: an invocation in which a step failed (an input check, an unknown
\* action, a missing state, a store call) has called core.setFailed exactly
\* once, has no result and has set no output; an invocation that is under
\* way or has succeeded has not called core.setFailed.
C13_FailureReportedOnce ==
    \A p \in Procs :
      /\ (Done(p) /\ error[p] # NoError)
           => /\ setFailedCalls[p] = 1
              /\ result[p] = Undefined
              /\ DOMAIN outputs[p] = {}
      /\ (Running(p) \/ Succeeded(p)) => setFailedCalls[p] = 0
      /\ Running(p) => DOMAIN outputs[p] = {}

\* A set-active whose put failed, after a successful read, has reported the
\* failure.
C13_Witness ==
    \E p \in Procs :
      /\ Done(p) /\ action[p] = setActiveAction
      /\ error[p] = StoreUnavailable /\ calls[p].put = 1
      /\ setFailedCalls[p] = 1 /\ DOMAIN outputs[p] = {}

\* Two invocations overlap: run1 runs any number of invocations one after the
\* other, and run2 runs one, started at any moment.
ConcRun(p) == pc["run2"] = "idle" /\ Run(p)

ConcNext ==
    \/ TableBecomesActive
    \/ \E p \in Procs : ConcRun(p)
    \/ \E p \in Procs : DescribeTable(p)
    \/ \E p \in Procs : CreateTable(p)
    \/ \E p \in Procs : WaitForTableActive(p)
    \/ \E p \in Procs : GetItem(p)
    \/ \E p \in Procs : PutItem(p)

\* Every sequential execution, followed by one invocation that runs
\* concurrently with the invocations of the sequence.
ConcSpec == Init /\ [][ConcNext]_vars

\* C14: whatever invocations ran, one after the other or overlapping, with
\* valid or invalid inputs and with store calls failing, every row's
\* active_color is "blue" or "green" in lower case, and a key has at most one
\* row.
C14_StoredColorIsBlueOrGreen ==
    /\ \A r \in items : r.active_color \in {blue, green}
    /\ \A r1, r2 \in items : r1.deployment_key = r2.deployment_key => r1 = r2

\* A row is stored after overlapping invocations of which one failed on an
\* invalid color and the other wrote.
C14_Witness ==
    /\ items # {}
    /\ Done("run1") /\ error["run1"] = InvalidColor /\ HadRow("run1")
    /\ Succeeded("run2") /\ calls["run2"].put = 1
    /\ before["run2"].items = before["run1"].items

\* C15: toggle is a read followed by an unconditional write.  Whenever the
\* two overlapping invocations are toggles that both read the same color c
\* and both succeeded, each reports previousColor = c and activeColor = the
\* other color, neither reports a failure, and the stored color is the other
\* color, not c: of the two toggles counted, one is lost.
C15_LostToggle ==
    (/\ Succeeded("run1") /\ action["run1"] = toggleAction
     /\ Succeeded("run2") /\ action["run2"] = toggleAction
     /\ currentState["run1"] = currentState["run2"])
    => LET c == currentState["run1"]
       IN  /\ c \in {blue, green}
           /\ \A p \in Procs :
                /\ result[p] = [activeColor |-> OtherColor(c), inactiveColor |-> c,
                                previousColor |-> c]
                /\ setFailedCalls[p] = 0
                /\ calls[p].put = 1
           /\ \A r \in items : r.active_color = OtherColor(c)
           /\ items # {}

\* Two toggles that both read blue have succeeded: green is stored, after
\* two toggles counted from blue.
C15_Witness ==
    /\ Succeeded("run1") /\ action["run1"] = toggleAction
    /\ Succeeded("run2") /\ action["run2"] = toggleAction
    /\ currentState["run1"] = blue /\ currentState["run2"] = blue
    /\ toggleRun = [base |-> blue, n |-> 2]
    /\ \A r \in items : r.active_color = green

\* C16: in a sequential execution a set-active with a valid color on a key
\* without a row fails only when a store call fails; when it returns it
\* returns previousColor = null and has created the row with the requested
\* color.  A get-active on a key with a row fails only when a store call
\* fails, whether or not an init ever ran.
C16_SetActiveCreatesRow ==
    \A p \in Procs :
      /\ (Done(p) /\ action[p] = setActiveAction /\ ~HadRow(p)
            /\ IsColorName(colorInput[p]))
           => /\ error[p] \in {NoError} \cup StoreErrors
              /\ Succeeded(p) =>
                   LET c == ColorNamed(colorInput[p])
                   IN  /\ result[p] = [activeColor |-> c,
                                       inactiveColor |-> OtherColor(c),
                                       previousColor |-> Null]
                       /\ StoredColor(p) = c
                       /\ calls[p].put = 1
      /\ (Done(p) /\ action[p] = getActiveAction /\ HadRow(p))
           => error[p] \in {NoError, StoreUnavailable}

\* No init was ever started, the row was created by a set-active that found
\* none, and a get-active has returned its color.
C16_Witness ==
    \E p \in Procs :
      /\ ~everInit
      /\ Succeeded(p) /\ action[p] = getActiveAction
      /\ HasItem(items, deploymentKey[p])
      /\ Item(items, deploymentKey[p]).metadata.action = setActiveAction
      /\ Item(items, deploymentKey[p]).metadata.previous_color = Null
      /\ result[p].activeColor = StoredColor(p)

\* C17 as stated: init validates the configured initial color only when
\* the key has no row, so an init on a key that has a row does not fail with
\* InvalidColor.
C17_InvalidColorOnlyWithoutRow ==
    \A p \in Procs :
      (Done(p) /\ action[p] = initAction /\ HadRow(p)) => error[p] # InvalidColor

\* C17: init validates the configured initial color before its first store
\* call.  It fails with InvalidColor exactly when that color is neither blue
\* nor green, whether or not the key has a row, and then has made no store
\* call; it reads the key only after it ensured the table; with a valid
\* color and a row it returns the existing color with wasExisting = true and
\* leaves the row as it was.
C17_InitValidatesFirst ==
    \A p \in Procs :
      (Done(p) /\ action[p] = initAction) =>
        /\ error[p] = InvalidColor <=> ~IsColorName(ConfiguredInitial(p))
        /\ error[p] = InvalidColor => calls[p] = NoCalls /\ items = before[p].items
        /\ calls[p].get > 0 => calls[p].describe > 0
        /\ (Succeeded(p) /\ HadRow(p)) =>
             /\ result[p].activeColor = ColorBefore(p)
             /\ result[p].wasExisting = TRUE
             /\ calls[p].put = 0
             /\ items = before[p].items

\* An init on a key that has a row has failed with InvalidColor without a
\* store call.
C17_Witness ==
    \E p \in Procs :
      /\ Done(p) /\ action[p] = initAction /\ HadRow(p)
      /\ error[p] = InvalidColor
      /\ calls[p] = NoCalls
      /\ setFailedCalls[p] = 1

\* The rows of the table before and after a step: every key that had a row
\* keeps one.
RowsKept == \A k \in DeploymentKeys : HasItem(items, k) => HasItem(items', k)

\* The step is the PutCommand of invocation p being accepted.
PutSucceeds(p) == pc[p] = "put" /\ pc'[p] = "done" /\ error'[p] = NoError

\* C18: in a sequential execution an invocation that has failed, at whatever
\* store call, leaves the table's rows as they were when it started; the
\* rows change only in the step of a put that succeeded, which writes the
\* row of the invocation's key and removes none, and no row is ever removed
\* afterwards.
C18_RowChangesOnlyByPut ==
    /\ [](\A p \in Procs : Failed(p) => items = before[p].items)
    /\ [][/\ items' # items =>
               \E p \in Procs :
                 /\ PutSucceeds(p)
                 /\ HasItem(items', deploymentKey[p])
                 /\ Item(items', deploymentKey[p]).active_color = PutColor(p)
          /\ RowsKept]_vars

\* A put on a key that has a row was rejected and the invocation has failed:
\* the row is the one from before.
C18_Witness ==
    \E p \in Procs :
      /\ Failed(p) /\ calls[p].put = 1
      /\ HadRow(p)
      /\ items = before[p].items

\* The step leaves the loop of waitForTableActive of invocation p: by its
\* return, or by a throw.
WaitReturns(p) == pc[p] = "wait" /\ pc'[p] = "get"

WaitThrows(p) == pc[p] = "wait" /\ pc'[p] = "done"

\* The step is one more attempt of the loop of invocation p.
WaitRetries(p) == pc[p] = "wait" /\ pc'[p] = "wait" /\ attempt'[p] # attempt[p]

\* C19: the number of the DescribeTableCommand the loop of waitForTableActive
\* is at is always within 1..30; the loop is left by a return only on the
\* answer ACTIVE; on attempts 1..29 the loop is never left by a throw,
\* whatever the answer; every further attempt has the next number, so there
\* is no 31st.
C19_WaitIsBounded ==
    /\ [](\A p \in Procs : pc[p] = "wait" => attempt[p] \in 1..maxAttempts)
    /\ [][\A p \in Procs :
            /\ WaitReturns(p) => waitAnswer'[p] = "ACTIVE" /\ tableStatus = "ACTIVE"
            /\ WaitThrows(p) => attempt[p] = maxAttempts
            /\ WaitRetries(p) =>
                 attempt'[p] = attempt[p] + 1 /\ attempt[p] < maxAttempts]_vars

\* The loop is at its 30th attempt and the table is still being created.
C19_Witness ==
    \E p \in Procs :
      pc[p] = "wait" /\ attempt[p] = maxAttempts /\ tableStatus = "CREATING"

\* The loop has returned on ACTIVE and the invocation has gone on to
\* completion.
C19_WitnessReturned ==
    \E p \in Procs : Succeeded(p) /\ waitAnswer[p] = "ACTIVE" /\ tableCreated[p]

\* C20 as stated: whenever waitForTableActive uses up its 30 attempts, it
\* fails with TableNotReady.
C20_ExhaustionIsTableNotReady ==
    \A p \in Procs :
      (Done(p) /\ attempt[p] = maxAttempts) => error[p] = TableNotReady

\* C20: when waitForTableActive uses up its 30 attempts, it fails with
\* TableNotReady when the 30th DescribeTableCommand reported a status that
\* is not ACTIVE, and with the error of that command (StoreUnavailable) when
\* the 30th DescribeTableCommand failed; it has read and written no row.
C20_ExhaustionError ==
    \A p \in Procs :
      (Done(p) /\ attempt[p] = maxAttempts) =>
        /\ waitAnswer[p] \in {"CREATING", "Error"}
        /\ waitAnswer[p] = "CREATING" <=> error[p] = TableNotReady
        /\ waitAnswer[p] = "Error" <=> error[p] = StoreUnavailable
        /\ calls[p].get = 0 /\ calls[p].put = 0
        /\ setFailedCalls[p] = 1

\* The 30th DescribeTableCommand failed and the invocation has failed with
\* its error.
C20_Witness ==
    \E p \in Procs :
      /\ Done(p) /\ attempt[p] = maxAttempts
      /\ waitAnswer[p] = "Error"
      /\ error[p] = StoreUnavailable

\* The 30th DescribeTableCommand reported CREATING and the invocation has
\* failed with TableNotReady.
C20_WitnessStatus ==
    \E p \in Procs :
      /\ Done(p) /\ attempt[p] = maxAttempts
      /\ waitAnswer[p] = "CREATING"
      /\ error[p] = TableNotReady

\* The step is the answer to the DescribeTableCommand of ensureTableExists
\* of invocation p.
ExistenceChecked(p) == pc[p] = "describe" /\ pc'[p] # "describe"

\* C21: ensureTableExists goes on to create the table only when there is no
\* table, and returns false only when there is one; when its
\* DescribeTableCommand fails otherwise, the invocation fails with that error
\* (StoreUnavailable), reported once, having made the one describe call and
\* no create, get or put call, and the rows are as they were.
C21_ExistenceCheckErrorPropagates ==
    /\ [](\A p \in Procs :
            (Done(p) /\ calls[p] = [NoCalls EXCEPT !.describe = 1]) =>
              /\ error[p] = StoreUnavailable
              /\ setFailedCalls[p] = 1
              /\ items = before[p].items)
    /\ [][\A p \in Procs :
            ExistenceChecked(p) =>
              /\ pc'[p] = "create" => tableStatus = "NONE"
              /\ pc'[p] = "get" => tableStatus # "NONE"
              /\ pc'[p] = "done" =>
                   /\ error'[p] = StoreUnavailable
                   /\ calls'[p] = [NoCalls EXCEPT !.describe = 1]
              /\ pc'[p] \in {"create", "get", "done"}]_vars

\* The existence check of a table that exists has failed: the invocation has
\* failed with the error and has made no other store call.
C21_Witness ==
    \E p \in Procs :
      /\ Done(p) /\ error[p] = StoreUnavailable
      /\ calls[p] = [NoCalls EXCEPT !.describe = 1]
      /\ before[p].tableStatus = "ACTIVE"

\* The metadata md names act as the action that wrote the row.
RecordsAction(md, act) == "action" \in DOMAIN md /\ md.action = act

\* Invocation p has returned after its put was accepted.
Wrote(p) == Succeeded(p) /\ calls[p].put = 1

\* The metadata of the row of the key of invocation p.
StoredMetadata(p) == Item(items, deploymentKey[p]).metadata

\* C22 as stated: after a successful write by init, set-active or toggle the
\* metadata of the row names the action that wrote it, and after one by
\* set-active or toggle it holds the color read before as previous color.
C22_EveryWriteRecordsAction ==
    \A p \in Procs :
      Wrote(p) =>
        /\ RecordsAction(StoredMetadata(p), action[p])
        /\ action[p] \in {setActiveAction, toggleAction} =>
             StoredMetadata(p).previous_color = ColorBefore(p)

\* C22: in a sequential execution, after a successful write by set-active or
\* toggle the metadata of the row names that action and holds as previous
\* color the color the invocation read (null when set-active found no row);
\* after a successful write by init the metadata holds the color written as
\* initial color and names no action; every write is marked as made by
\* github-actions.
C22_MetadataOfWrite ==
    \A p \in Procs :
      Wrote(p) =>
        /\ action[p] \in {initAction, setActiveAction, toggleAction}
        /\ StoredMetadata(p).updated_by = "github-actions"
        /\ action[p] \in {setActiveAction, toggleAction} =>
             /\ RecordsAction(StoredMetadata(p), action[p])
             /\ StoredMetadata(p).previous_color = ColorBefore(p)
             /\ StoredMetadata(p).previous_color = result[p].previousColor
        /\ action[p] = initAction =>
             /\ "action" \notin DOMAIN StoredMetadata(p)
             /\ "previous_color" \notin DOMAIN StoredMetadata(p)
             /\ StoredMetadata(p).initial_color = StoredColor(p)

\* An init has written the row: its metadata names no action.
C22_Witness ==
    \E p \in Procs :
      /\ Wrote(p) /\ action[p] = initAction
      /\ "action" \notin DOMAIN StoredMetadata(p)

\* A set-active has written over a row: the metadata holds the color of that
\* row as previous color.
C22_WitnessSetActive ==
    \E p \in Procs :
      /\ Wrote(p) /\ action[p] = setActiveAction /\ HadRow(p)
      /\ StoredMetadata(p).previous_color = ColorBefore(p)

\* ensureTableExists of invocation p has returned: it found the table, or
\* it created it and waitForTableActive returned on ACTIVE.
EnsuredTable(p) ==
    /\ calls[p].describe = 1
    /\ \/ calls[p].create = 0 /\ ~tableCreated[p]
       \/ calls[p].create = 1 /\ tableCreated[p] /\ waitAnswer[p] = "ACTIVE"

\* C23: an invocation that is about to read or write a row, or has done so,
\* has had its ensureTableExists return; it writes only after it has read;
\* the read is reached only by the step in which the existence check or the
\* wait for the table succeeds, the write only from the read, and a get or
\* put call is counted only at these places.
C23_EnsureBeforeReadAndWrite ==
    /\ [](\A p \in Procs :
            /\ (pc[p] \in {"get", "put"} \/ calls[p].get > 0 \/ calls[p].put > 0)
                 => EnsuredTable(p)
            /\ (pc[p] = "put" \/ calls[p].put > 0) => calls[p].get = 1
            /\ calls[p].get <= 1 /\ calls[p].put <= 1)
    /\ [][\A p \in Procs :
            /\ (pc'[p] = "get" /\ pc[p] # "get") => pc[p] \in {"describe", "wait"}
            /\ (pc'[p] = "put" /\ pc[p] # "put") => pc[p] = "get"
            /\ calls'[p].get > calls[p].get => pc[p] = "get"
            /\ calls'[p].put > calls[p].put => pc[p] = "put"]_vars

\* An invocation has created the table, waited for it, read and written.
C23_Witness ==
    \E p \in Procs :
      /\ Succeeded(p)
      /\ calls[p] = [describe |-> 1, create |-> 1, get |-> 1, put |-> 1]
      /\ waitAnswer[p] = "ACTIVE"

\* The actions that only read.
ReadActions == {getActiveAction, getInactiveAction}

\* C24: in a sequential execution a get-active or get-inactive never goes on
\* from its read to a put and never issues one, and leaves the rows as they
\* were; when it returns, the key had a row with some color c, still has it,
\* and the result is the pair activeColor = c, inactiveColor = the other
\* color, the same for both actions.
C24_ReadsDoNotWrite ==
    /\ [](\A p \in Procs :
            (Started(p) /\ action[p] \in ReadActions) =>
              /\ pc[p] # "put"
              /\ calls[p].put = 0
              /\ items = before[p].items
              /\ Succeeded(p) =>
                   /\ HadRow(p)
                   /\ StoredColor(p) = ColorBefore(p)
                   /\ result[p] = [activeColor |-> ColorBefore(p),
                                   inactiveColor |-> OtherColor(ColorBefore(p))])
    /\ [][\A p \in Procs :
            (pc[p] = "get" /\ action[p] \in ReadActions) =>
              pc'[p] \in {"get", "done"}]_vars

\* A get-inactive has returned the pair of the row the key has.
C24_Witness ==
    \E p \in Procs :
      /\ Succeeded(p) /\ action[p] = getInactiveAction
      /\ HadRow(p)
      /\ result[p].activeColor = StoredColor(p)
      /\ result[p].inactiveColor = OtherColor(StoredColor(p))
      /\ calls[p].put = 0

\* C25 as stated: an invocation that has gone on from ensureTableExists to
\* its read or its write finds the table ACTIVE, whatever other invocations
\* do.
C25_TableActiveAtReadAndWrite ==
    \A p \in Procs : pc[p] \in {"get", "put"} => tableStatus = "ACTIVE"

\* Invocations p and q are two inits that both started on a key without a
\* row, hence overlapped, and both returned.
BothInitialized(p, q) ==
    /\ p # q
    /\ Succeeded(p) /\ Succeeded(q)
    /\ action[p] = initAction /\ action[q] = initAction
    /\ deploymentKey[p] = deploymentKey[q]
    /\ ~HadRow(p) /\ ~HadRow(q)

\* C26 as stated: of two concurrent inits with different initial colors on
\* a key without a row at most one reports wasExisting = false, and the
\* color stored at the end is the activeColor both report.
C26_InitNoOverwriteUnderInterleaving ==
    \A p, q \in Procs :
      (BothInitialized(p, q) /\ validatedColor[p] # validatedColor[q]) =>
        /\ ~(result[p].wasExisting = FALSE /\ result[q].wasExisting = FALSE)
        /\ StoredColor(p) = result[p].activeColor
        /\ StoredColor(p) = result[q].activeColor

\* C26: of two concurrent inits on a key without a row at least one writes
\* and reports wasExisting = false, and both may.  One that reports
\* wasExisting = false has put its own color and reports it; one that
\* reports wasExisting = true has put nothing and reports the color the other
\* wrote.  The color stored at the end is the one put last: it is one of the
\* two initial colors, and it is the activeColor of both only when exactly
\* one of them wrote.
C26_InitUnderInterleaving ==
    \A p, q \in Procs :
      BothInitialized(p, q) =>
        /\ result[p].wasExisting = FALSE \/ result[q].wasExisting = FALSE
        /\ result[p].wasExisting = FALSE =>
             calls[p].put = 1 /\ result[p].activeColor = validatedColor[p]
        /\ result[p].wasExisting = TRUE =>
             calls[p].put = 0 /\ result[p].activeColor = validatedColor[q]
        /\ StoredColor(p) \in {validatedColor[p], validatedColor[q]}
        /\ result[p].wasExisting # result[q].wasExisting =>
             /\ StoredColor(p) = result[p].activeColor
             /\ StoredColor(p) = result[q].activeColor

\* Two concurrent inits with different colors both report wasExisting =
\* false, and the color stored is not the one the first of them reports.
C26_Witness ==
    \E p, q \in Procs :
      /\ BothInitialized(p, q)
      /\ validatedColor[p] # validatedColor[q]
      /\ result[p].wasExisting = FALSE /\ result[q].wasExisting = FALSE
      /\ StoredColor(p) # result[p].activeColor
      /\ StoredColor(p) = result[q].activeColor

====
